---- MODULE Spec2Model ----
(***************************************************************************)
(* Model of devito/passes/iet/language.py: the pragma-based parallelizer   *)
(* (PragmaParallelizer) and its device-aware specialization                *)
(* (DeviceAwarePragmaParallelizer).                                        *)
(*                                                                         *)
(* An IET is seen as the sequence of iteration trees that                  *)
(* retrieve_iteration_tree yields.  A tree is a path of nested loops       *)
(* (outermost first) together with a summary of what hangs below its       *)
(* loops: the expressions, the functions read, the operation count, the    *)
(* thread-private heap arrays and the prodders.  One step of the model is  *)
(* one turn of the `for tree in ...` loop of _make_parallel; the last      *)
(* step is the Transformer(mapper).visit(iet) that ends the pass.          *)
(***************************************************************************)
EXTENDS Integers, Sequences, FiniteSets, TLC

VARIABLES
    platform,   \* self.platform: [cores_physical, threads_per_core]
    cls,        \* the class of `self`
    par_disabled, \* options['par-disabled'] (device-aware class only)
    gpu_fit,    \* options['gpu-fit']: the functions known to fit in device memory
    ntrees,     \* number of trees of the IET visited so far
    mapper,     \* _make_parallel's `mapper`: root id -> 0 (no entry) or the turn that set it
    parrays,    \* _make_parallel's `parrays`: array -> 0 (no entry) or its PointerArray
    last,       \* what the last turn of the loop computed, for its tree
    pc,         \* "loop" (at the head of the for loop), "body" (a turn of the loop
                \* has run), "done" (rewritten IET returned), "raised" (AssertionError)
    replaced,   \* roots replaced in the IET returned by the pass
    declined,   \* history: the roots for which _make_partree returned no partree
    dereferences, \* history: the Dereference(array, parray) nodes built so far
    buffer,     \* the `f` of a data-movement call: a Function or an Array
    imask,      \* the `imask` of the call
    devicerm,   \* the `devicerm` of the call and its value at run time
    directive   \* the pragma the call returns

mapvars == <<buffer, imask, devicerm, directive>>

vars == <<platform, cls, par_disabled, gpu_fit, ntrees, mapper, parrays, last, pc,
          replaced, declined, dereferences, buffer, imask, devicerm, directive>>

(***************************************************************************)
(* Bounds of the model.                                                    *)
(***************************************************************************)
MaxDepth == 3
MaxTrees == 2
MaxDims == 2

(***************************************************************************)
(* Options of the pass (PragmaParallelizer.__init__).                      *)
(***************************************************************************)
collapse_ncores == 4
collapse_work == 512
chunk_nonaffine == 3
dynamic_work == 10
nested == 1

ncores == platform.cores_physical
nhyperthreads == platform.threads_per_core

Host == "PragmaParallelizer"
Device == "DeviceAwarePragmaParallelizer"

(***************************************************************************)
(* Functions and arrays an expression may touch.                           *)
(*   s      a scalar Symbol (not Indexed when written)                     *)
(*   f      a Function                                                     *)
(*   u      a TimeFunction with save=None                                  *)
(*   usave, vsave   TimeFunctions with saved history (save is not None)    *)
(***************************************************************************)
Functions == {"s", "f", "u", "usave", "vsave"}
is_TimeFunction(f) == f \in {"u", "usave", "vsave"}
has_save(f) == f \in {"usave", "vsave"}
is_Indexed(f) == f /= "s"
Arrays == {"r0", "r1"}

Max(a, b) == IF a >= b THEN a ELSE b

RECURSIVE prod(_)
prod(s) == IF s = <<>> THEN 1 ELSE Head(s) * prod(Tail(s))

Dims(loops) == {loops[k].dim : k \in 1..Len(loops)}

(***************************************************************************)
(* key: the parallel-candidacy predicate set by PragmaParallelizer.        *)
(***************************************************************************)
key(i) == i.par /\ ~i.vec

(***************************************************************************)
(* filter_iterations(tree, key): the first run of consecutive loops of     *)
(* the tree for which key holds.                                           *)
(***************************************************************************)
filter_iterations(loops) ==
    LET K == {k \in 1..Len(loops) : key(loops[k])}
    IN  IF K = {} THEN <<>>
        ELSE LET first == CHOOSE k \in K : \A j \in K : k <= j
                 stop == {k \in first..Len(loops) : ~key(loops[k])}
                 lst == IF stop = {} THEN Len(loops)
                        ELSE (CHOOSE k \in stop : \A j \in stop : k <= j) - 1
             IN  SubSeq(loops, first, lst)

(***************************************************************************)
(* IsPerfectIteration(depth=i).visit(root): every loop from root down to   *)
(* the parent of i holds the next loop of the path and nothing else.       *)
(***************************************************************************)
IsPerfectIteration(t, i, root) ==
    \A k \in root.dim..(i.dim - 1) : t.loops[k].perfect

(***************************************************************************)
(* _find_collapsable: one turn of its loop breaks at candidates[n] when    *)
(* one of its four tests fires.                                            *)
(***************************************************************************)
WorkTooLow_inclusive(candidates, n) ==
    LET nestedC == SubSeq(candidates, n, Len(candidates))
    IN  /\ Len(nestedC) > 1
        /\ \A k \in 1..Len(nestedC) : nestedC[k].static
        /\ prod([k \in 1..Len(nestedC) |-> nestedC[k].trip]) < collapse_work

WorkTooLow(candidates, n) ==
    LET nestedC == SubSeq(candidates, n + 1, Len(candidates))
    IN  /\ nestedC /= <<>>
        /\ \A k \in 1..Len(nestedC) : nestedC[k].static
        /\ prod([k \in 1..Len(nestedC) |-> nestedC[k].trip]) < collapse_work

DependsOnOuter_previous(candidates, n) ==
    candidates[n - 1].dim \in candidates[n].minDep

DependsOnOuter(candidates, n) ==
    \E k \in 1..(n - 1) : candidates[k].dim \in candidates[n].minDep

CollapseBreaks(t, root, candidates, n) ==
    \/ ~IsPerfectIteration(t, candidates[n], root)
    \/ DependsOnOuter(candidates, n)
    \/ candidates[n].vec
    \/ WorkTooLow(candidates, n)

RECURSIVE CollapseFrom(_, _, _, _)
CollapseFrom(t, root, candidates, n) ==
    IF n > Len(candidates) \/ CollapseBreaks(t, root, candidates, n)
    THEN <<>>
    ELSE <<candidates[n]>> \o CollapseFrom(t, root, candidates, n + 1)

_find_collapsable_gt(t, root, candidates) ==
    IF ncores > collapse_ncores
    THEN CollapseFrom(t, root, candidates, 2)
    ELSE <<>>

_find_collapsable(t, root, candidates) ==
    IF ncores >= collapse_ncores
    THEN CollapseFrom(t, root, candidates, 2)
    ELSE <<>>

(***************************************************************************)
(* is_on_device.  FindSymbols().visit(iet) yields the functions written    *)
(* or read below the node; with only_writes they are intersected with the  *)
(* functions on the left-hand side of some Expression.                     *)
(***************************************************************************)
Writes(t) == {t.exprs[k].write : k \in 1..Len(t.exprs)}

FindSymbols(t) == Writes(t) \cup t.reads

InspectedFunctions_all(t, only_writes) == FindSymbols(t)

InspectedFunctions(t, only_writes) ==
    IF only_writes THEN FindSymbols(t) \cap Writes(t) ELSE FindSymbols(t)

AllOnDevice(functions, gpufit) ==
    \A f \in functions : ~(is_TimeFunction(f) /\ has_save(f) /\ f \notin gpufit)

is_on_device(t, gpufit, only_writes) ==
    AllOnDevice(InspectedFunctions(t, only_writes), gpufit)

(***************************************************************************)
(* Parallel trees.  NoPartree stands for Python's None.                    *)
(***************************************************************************)
NoPartree ==
    [kind |-> "None", root |-> 0, rootclass |-> "None", ncollapse |-> 0,
     schedule |-> "None", parallel |-> FALSE, nthreads |-> "None",
     chunk_size |-> FALSE, gpu_fit |-> FALSE, prefix |-> <<>>]

\* The value of INT(Max(niters / (nthreads*chunk_nonaffine), 1)) at run time,
\* for nthr threads: niters is the product of the trip counts of the loops in
\* stmt.niters.
ChunkValue(stmt, t, nthr) ==
    Max(prod([k \in 1..Len(stmt.niters) |-> t.loops[stmt.niters[k]].trip])
            \div (nthr * stmt.coeff), 1)

ChunkPrologue_inner(root, collapsable) ==
    [lhs |-> "chunk_size",
     niters |-> [k \in 1..Len(collapsable) |-> collapsable[k].dim],
     nthreads |-> "nthreads_nonaffine",
     coeff |-> chunk_nonaffine]

ChunkPrologue(root, collapsable) ==
    [lhs |-> "chunk_size",
     niters |-> <<root.dim>> \o [k \in 1..Len(collapsable) |-> collapsable[k].dim],
     nthreads |-> "nthreads_nonaffine",
     coeff |-> chunk_nonaffine]

\* PragmaParallelizer._make_partree
Host_make_partree(t, candidates, nthreads) ==
    LET root == candidates[1]
        collapsable == _find_collapsable(t, root, candidates)
        ncollapse == 1 + Len(collapsable)
        schedule == IF t.ops >= dynamic_work THEN "dynamic" ELSE "static"
    IN  IF \A k \in 1..Len(candidates) : candidates[k].affine
        THEN [raised |-> FALSE, root |-> root.dim, collapsed |-> <<root>> \o collapsable,
              partree |->
                 [kind |-> "host", root |-> root.dim, rootclass |-> "_Iteration",
                  ncollapse |-> ncollapse, schedule |-> schedule,
                  parallel |-> (nthreads /= "None"),
                  nthreads |-> IF nthreads = "None" THEN "nthreads" ELSE nthreads,
                  chunk_size |-> FALSE, gpu_fit |-> FALSE, prefix |-> <<>>]]
        ELSE IF nthreads /= "None"
        THEN \* assert nthreads is None
             [raised |-> TRUE, root |-> root.dim, collapsed |-> <<>>,
              partree |-> NoPartree]
        ELSE [raised |-> FALSE, root |-> root.dim, collapsed |-> <<root>> \o collapsable,
              partree |->
                 [kind |-> "host", root |-> root.dim, rootclass |-> "_Iteration",
                  ncollapse |-> ncollapse, schedule |-> "None",
                  parallel |-> FALSE, nthreads |-> "nthreads_nonaffine",
                  chunk_size |-> TRUE, gpu_fit |-> FALSE,
                  prefix |-> <<ChunkPrologue(root, collapsable)>>]]

Device_make_partree_flip(t, candidates, nthreads) ==
    LET root == candidates[1]
        collapsable == _find_collapsable(t, root, candidates)
    IN  IF is_on_device(t, gpu_fit, TRUE)
        THEN [raised |-> FALSE, root |-> root.dim, collapsed |-> <<root>> \o collapsable,
              partree |->
                 [kind |-> "device", root |-> root.dim, rootclass |-> "_Iteration",
                  ncollapse |-> 1 + Len(collapsable), schedule |-> "None",
                  parallel |-> FALSE, nthreads |-> nthreads,
                  chunk_size |-> FALSE, gpu_fit |-> TRUE, prefix |-> <<>>]]
        ELSE IF par_disabled
        THEN Host_make_partree(t, candidates, nthreads)
        ELSE [raised |-> FALSE, root |-> root.dim, collapsed |-> <<>>,
              partree |-> NoPartree]

\* DeviceAwarePragmaParallelizer._make_partree
Device_make_partree(t, candidates, nthreads) ==
    LET root == candidates[1]
        collapsable == _find_collapsable(t, root, candidates)
    IN  IF is_on_device(t, gpu_fit, TRUE)
        THEN [raised |-> FALSE, root |-> root.dim, collapsed |-> <<root>> \o collapsable,
              partree |->
                 [kind |-> "device", root |-> root.dim, rootclass |-> "_Iteration",
                  ncollapse |-> 1 + Len(collapsable), schedule |-> "None",
                  parallel |-> FALSE, nthreads |-> nthreads,
                  chunk_size |-> FALSE, gpu_fit |-> TRUE, prefix |-> <<>>]]
        ELSE IF ~par_disabled
        THEN Host_make_partree(t, candidates, nthreads)
        ELSE [raised |-> FALSE, root |-> root.dim, collapsed |-> <<>>,
              partree |-> NoPartree]

\* self._make_partree
_make_partree(t, candidates, nthreads) ==
    IF cls = Device THEN Device_make_partree(t, candidates, nthreads)
    ELSE Host_make_partree(t, candidates, nthreads)

\* isinstance(partree.root, self._Iteration), the test of the device-aware
\* overrides: both builders above make the root with self._Iteration.
IsSelfIteration(partree) == partree.rootclass = "_Iteration"

(***************************************************************************)
(* _make_nested_partree.  The candidates of the second level, collected    *)
(* by the loop at lines 346-354.                                           *)
(***************************************************************************)
RECURSIVE NestedCandidates_skipping(_, _, _)
NestedCandidates_skipping(inner, outer, acc) ==
    IF inner = <<>> THEN acc
    ELSE LET i == Head(inner)
         IN  IF key(i) /\ (i.rel \cap Dims(outer) /= {})
             THEN NestedCandidates_skipping(Tail(inner), outer, Append(acc, i))
             ELSE NestedCandidates_skipping(Tail(inner), outer, acc)

RECURSIVE NestedCandidates(_, _, _)
NestedCandidates(inner, outer, acc) ==
    IF inner = <<>> THEN acc
    ELSE LET i == Head(inner)
         IN  IF key(i) /\ (i.rel \cap Dims(outer) /= {})
             THEN NestedCandidates(Tail(inner), outer, Append(acc, i))
             ELSE IF acc /= <<>> THEN acc
             ELSE NestedCandidates(Tail(inner), outer, acc)

\* Yields [raised, subtrees]: the sub-partrees put in place of their subroots,
\* each with the candidates it was built from.
Host_make_nested_partree(t, partree) ==
    IF nhyperthreads <= nested
    THEN [raised |-> FALSE, subtrees |-> <<>>]
    ELSE LET first == partree.root
             outer == SubSeq(t.loops, first, first + partree.ncollapse - 1)
             inner == SubSeq(t.loops, first + partree.ncollapse, Len(t.loops))
             candidates == NestedCandidates(inner, outer, <<>>)
         IN  IF candidates = <<>>
             THEN [raised |-> FALSE, subtrees |-> <<>>]
             ELSE LET r == _make_partree(t, candidates, "nthreads_nested")
                  IN  IF r.raised THEN [raised |-> TRUE, subtrees |-> <<>>]
                      ELSE [raised |-> FALSE,
                            subtrees |-> <<[candidates |-> candidates,
                                            partree |-> r.partree]>>]

_make_nested_partree(t, partree) ==
    IF cls = Device /\ IsSelfIteration(partree)
    THEN [raised |-> FALSE, subtrees |-> <<>>]
    ELSE Host_make_nested_partree(t, partree)

(***************************************************************************)
(* _make_reductions.  Yields the reduction clause put on the root (if any) *)
(* and the set of expressions given the atomic pragma.                     *)
(***************************************************************************)
IncrementExprs(t) ==
    {k \in 1..Len(t.exprs) : t.exprs[k].inc /\ ~t.exprs[k].foreign}

_make_reductions_anyScalar(t, collapsed) ==
    LET exprs == IncrementExprs(t)
    IN  IF ~(\E k \in 1..Len(collapsed) : collapsed[k].atomic)
        THEN [reduced |-> FALSE, reduction |-> {}, atomics |-> {}]
        ELSE IF \/ \A k \in 1..Len(collapsed) : collapsed[k].affine
                \/ \E e \in exprs : ~is_Indexed(t.exprs[e].write)
        THEN [reduced |-> TRUE, reduction |-> exprs, atomics |-> {}]
        ELSE [reduced |-> FALSE, reduction |-> {}, atomics |-> exprs]

_make_reductions_anyAffine(t, collapsed) ==
    LET exprs == IncrementExprs(t)
    IN  IF ~(\E k \in 1..Len(collapsed) : collapsed[k].atomic)
        THEN [reduced |-> FALSE, reduction |-> {}, atomics |-> {}]
        ELSE IF \/ \E k \in 1..Len(collapsed) : collapsed[k].affine
                \/ \A e \in exprs : ~is_Indexed(t.exprs[e].write)
        THEN [reduced |-> TRUE, reduction |-> exprs, atomics |-> {}]
        ELSE [reduced |-> FALSE, reduction |-> {}, atomics |-> exprs]

_make_reductions(t, collapsed) ==
    LET exprs == IncrementExprs(t)
    IN  IF ~(\E k \in 1..Len(collapsed) : collapsed[k].atomic)
        THEN [reduced |-> FALSE, reduction |-> {}, atomics |-> {}]
        ELSE IF \/ \A k \in 1..Len(collapsed) : collapsed[k].affine
                \/ \A e \in exprs : ~is_Indexed(t.exprs[e].write)
        THEN [reduced |-> TRUE, reduction |-> exprs, atomics |-> {}]
        ELSE [reduced |-> FALSE, reduction |-> {}, atomics |-> exprs]

(***************************************************************************)
(* _make_threaded_prodders: TRUE when the prodders are rebuilt with        *)
(* self._Prodder.                                                          *)
(***************************************************************************)
_make_threaded_prodders(partree) ==
    ~(cls = Device /\ IsSelfIteration(partree))

(***************************************************************************)
(* _make_parregion.  The heap-allocated thread-local arrays of the unit    *)
(* are taken in a fixed order; a new PointerArray gets the next free name. *)
(***************************************************************************)
ArrayOrder == <<"r0", "r1">>

NextName(pa) == 1 + Cardinality({a \in Arrays : pa[a] /= 0})

RECURSIVE PromoteFrom_always(_, _, _)
PromoteFrom_always(k, heap_private, pa) ==
    IF k > Len(ArrayOrder) THEN pa
    ELSE LET a == ArrayOrder[k]
         IN  IF a \in heap_private
             THEN PromoteFrom_always(k + 1, heap_private,
                                     [pa EXCEPT ![a] = NextName(pa)])
             ELSE PromoteFrom_always(k + 1, heap_private, pa)

RECURSIVE PromoteFrom(_, _, _)
PromoteFrom(k, heap_private, pa) ==
    IF k > Len(ArrayOrder) THEN pa
    ELSE LET a == ArrayOrder[k]
         IN  IF a \in heap_private /\ pa[a] = 0
             THEN PromoteFrom(k + 1, heap_private, [pa EXCEPT ![a] = NextName(pa)])
             ELSE PromoteFrom(k + 1, heap_private, pa)

Host_make_parregion(t, pa) ==
    LET pa2 == PromoteFrom(1, t.arrays, pa)
    IN  [region |-> TRUE, parrays |-> pa2,
         derefs |-> {<<a, pa2[a]>> : a \in t.arrays}]

_make_parregion(t, partree, pa) ==
    IF cls = Device /\ IsSelfIteration(partree)
    THEN [region |-> FALSE, parrays |-> pa, derefs |-> {}]
    ELSE Host_make_parregion(t, pa)

(***************************************************************************)
(* _make_guard: the loops whose step enters the condition; the guard is    *)
(* emitted when the disjunction is not False, that is when the set is not  *)
(* empty.                                                                  *)
(***************************************************************************)
Host_make_guard(collapsed) ==
    {collapsed[k].dim : k \in {j \in 1..Len(collapsed) : collapsed[j].stepSym}}

_make_guard(partree, collapsed) ==
    IF cls = Device /\ IsSelfIteration(partree)
    THEN {}
    ELSE Host_make_guard(collapsed)

(***************************************************************************)
(* Data movement.  A buffer has ndim dimensions; the size of dimension d   *)
(* that is mapped (the symbolic shape of an Array, the size of the FULL    *)
(* data region of a Function) is a symbol of the generated code, with the  *)
(* value extent[d] at run time.  An index mask, when given, has one entry per    *)
(* dimension: FULL, a (start, size) pair, or a single index.               *)
(***************************************************************************)
Extents == {0, 1, 4}

Buffers ==
    UNION {[is_Array : BOOLEAN, ndim : {n}, extent : [1..n -> Extents]] : n \in 1..MaxDims}

Literal(n) == [kind |-> "literal", v |-> n]

MaskEntries ==
    {[kind |-> "FULL", start |-> 0, size |-> 0],
     [kind |-> "pair", start |-> 0, size |-> 1],
     [kind |-> "pair", start |-> 1, size |-> 2],
     [kind |-> "index", start |-> 1, size |-> 0]}

NoMask == [given |-> FALSE, entries |-> <<>>]

Masks(f) == {NoMask} \cup [given : {TRUE}, entries : [1..f.ndim -> MaskEntries]]

NoFlag == [given |-> FALSE, value |-> FALSE]

Flags == {NoFlag} \cup [given : {TRUE}, value : BOOLEAN]

NoDirective == [name |-> "None", sections |-> <<>>, cond |-> <<>>]

\* DeviceAwarePragmaParallelizer._map_data
_map_data(f) ==
    IF f.is_Array THEN [d \in 1..f.ndim |-> [kind |-> "symbolic_shape", v |-> d]]
    ELSE [d \in 1..f.ndim |-> [kind |-> "FULL_size", v |-> d]]

\* DeviceAwarePragmaParallelizer._make_sections_from_imask
_make_sections_from_imask(f, im) ==
    LET datasize == _map_data(f)
        entries == IF im.given THEN im.entries
                   ELSE [d \in 1..Len(datasize) |->
                           [kind |-> "FULL", start |-> 0, size |-> 0]]
    IN  [d \in 1..Len(datasize) |->
           CASE entries[d].kind = "FULL" -> [start |-> 0, size |-> datasize[d]]
             [] entries[d].kind = "pair" ->
                  [start |-> entries[d].start, size |-> Literal(entries[d].size)]
             [] OTHER -> [start |-> entries[d].start, size |-> Literal(1)]]

\* the items joined by && in the if clause
FlagItem == [kind |-> "flag", size |-> Literal(0)]

NonZero(size) == [kind |-> "nonzero", size |-> size]

_map_delete_sections(f, im, rm) ==
    LET sections == _make_sections_from_imask(f, im)
    IN  [name |-> "map-exit-delete", sections |-> sections,
         cond |-> (IF rm.given THEN <<FlagItem>> ELSE <<>>)
                     \o [d \in 1..Len(sections) |-> NonZero(sections[d].size)]]

\* DeviceAwarePragmaParallelizer._map_delete
_map_delete(f, im, rm) ==
    LET sections == _make_sections_from_imask(f, im)
        datasize == _map_data(f)
    IN  [name |-> "map-exit-delete", sections |-> sections,
         cond |-> (IF rm.given THEN <<FlagItem>> ELSE <<>>)
                     \o [d \in 1..Len(datasize) |-> NonZero(datasize[d])]]

\* the value of the if clause at run time
ValueOf(size, f) == IF size.kind = "literal" THEN size.v ELSE f.extent[size.v]

EvalCond(cond, f, rm) ==
    \A k \in 1..Len(cond) :
        IF cond[k].kind = "flag" THEN rm.value ELSE ValueOf(cond[k].size, f) /= 0

(***************************************************************************)
(* The iteration trees the model draws from.  Each family varies some      *)
(* attributes of the loops and of what lies below them, the others being   *)
(* those of a plain parallel, affine, perfectly nested loop nest.          *)
(***************************************************************************)
TripCounts == {32, 512}
OpCounts == {1, 10}

PlainExprs == <<[write |-> "u", inc |-> FALSE, foreign |-> FALSE]>>

Kinds == {[par |-> FALSE, vec |-> FALSE], [par |-> TRUE, vec |-> FALSE],
          [par |-> TRUE, vec |-> TRUE]}

Loop(d, kind, perfect, minDep, maxDep, atomic, affine, stepSym, static, trip, rel) ==
    [dim |-> d, par |-> kind.par, vec |-> kind.vec, perfect |-> perfect,
     minDep |-> minDep, maxDep |-> maxDep, atomic |-> atomic, affine |-> affine,
     stepSym |-> stepSym, static |-> static, trip |-> trip, rel |-> rel]

ParKind == [par |-> TRUE, vec |-> FALSE]

\* The root is a candidate; only an innermost loop is SIMD-vectorized.
KindsAt(d, len) ==
    IF d = 1 THEN {ParKind}
    ELSE IF d = len THEN Kinds ELSE Kinds \ {[par |-> TRUE, vec |-> TRUE]}

\* The innermost loop of a tree holds expressions, not a loop.
Perfects(d, len) == IF d = len THEN {FALSE} ELSE BOOLEAN

Prev(d) == IF d = 1 THEN {{}} ELSE {{}, {d - 1}}

\* The outer dimensions in the lower and in the upper bound of loop d: none,
\* one outer dimension in the lower bound, or the previous one in the upper.
BoundDeps(d) ==
    {<<{}, {}>>} \cup {<<{j}, {}>> : j \in 1..(d - 1)}
                \cup {<<{}, mx>> : mx \in Prev(d) \ {{}}}

LoopsAt(fam, d, len) ==
    CASE fam = "structure" ->
           {Loop(d, k, p, b[1], b[2], FALSE, TRUE, FALSE, FALSE, 32, {}) :
              k \in KindsAt(d, len), p \in Perfects(d, len), b \in BoundDeps(d)}
      [] fam = "work" ->
           \* the work test reads the trip counts from the third loop on
           {Loop(d, ParKind, p, {}, {}, FALSE, af, FALSE, st, tc, {}) :
              p \in Perfects(d, len), af \in (IF d = len THEN BOOLEAN ELSE {TRUE}),
              st \in (IF d = 1 THEN {FALSE} ELSE BOOLEAN),
              tc \in (IF d < 3 THEN {32} ELSE TripCounts)}
      [] fam = "reduce" ->
           {Loop(d, ParKind, p, {}, {}, at, af, FALSE, FALSE, 32, {}) :
              p \in Perfects(d, len), at \in BOOLEAN, af \in BOOLEAN}
      [] fam = "guard" ->
           {Loop(d, k, p, {}, {}, FALSE, TRUE, sy, FALSE, 32, {}) :
              k \in Kinds \ {[par |-> TRUE, vec |-> TRUE]},
              p \in Perfects(d, len), sy \in BOOLEAN}
      [] fam = "device" ->
           {Loop(d, ParKind, p, {}, {}, FALSE, af, sy, FALSE, 32, {}) :
              p \in Perfects(d, len), af \in BOOLEAN,
              sy \in (IF d = 1 THEN BOOLEAN ELSE {FALSE})}
      [] fam = "nested" ->
           {Loop(d, k, d < len, {}, {}, FALSE, af, sy, FALSE, 32, rl) :
              k \in (IF d = 1 THEN {ParKind} ELSE Kinds \ {[par |-> TRUE, vec |-> TRUE]}),
              af \in (IF d = 1 THEN {TRUE} ELSE BOOLEAN),
              sy \in (IF d = 1 THEN BOOLEAN ELSE {FALSE}),
              rl \in (IF d = 1 THEN {{}} ELSE {{}, {1}})}
      [] fam = "arrays" ->
           {Loop(d, ParKind, d < len, {}, {}, FALSE, TRUE, FALSE, FALSE, 32, {})}

RECURSIVE PathsFrom(_, _, _)
PathsFrom(fam, d, len) ==
    IF d = 0 THEN {<<>>}
    ELSE {Append(p, l) : p \in PathsFrom(fam, d - 1, len), l \in LoopsAt(fam, d, len)}

Paths(fam, maxlen) == UNION {PathsFrom(fam, len, len) : len \in 1..maxlen}

ExprsAt(fam) ==
    CASE fam = "reduce" ->
           LET E == [write : {"s", "u"}, inc : BOOLEAN, foreign : BOOLEAN]
               N == [write : {"s", "u"}, inc : {TRUE}, foreign : {FALSE}]
           IN  {<<e>> : e \in E} \cup {<<e1, e2>> : e1 \in E, e2 \in N}
      [] fam = "device" ->
           LET E == [write : Functions, inc : {FALSE}, foreign : {FALSE}]
               W == [write : {"u", "vsave"}, inc : {FALSE}, foreign : {FALSE}]
           IN  {<<e>> : e \in E} \cup {<<e1, e2>> : e1 \in W, e2 \in E}
      [] fam = "guard" ->
           {<<[write |-> w, inc |-> FALSE, foreign |-> FALSE]>> : w \in {"u", "usave"}}
      [] OTHER -> {PlainExprs}

ReadsAt(fam) ==
    IF fam = "device" THEN {{}, {"usave"}, {"vsave"}, {"f", "u"}} ELSE {{"f"}}

OpsAt(fam) == IF fam = "work" THEN OpCounts ELSE {1}

ArraysAt(fam) == IF fam = "arrays" THEN SUBSET Arrays ELSE {{}}

DepthAt(fam) ==
    CASE fam \in {"reduce", "device", "guard"} -> MaxDepth - 1
      [] fam = "arrays" -> 1
      [] fam = "nested" -> MaxDepth + 1
      [] OTHER -> MaxDepth

Family(fam) ==
    {[loops |-> p, exprs |-> e, reads |-> r, ops |-> o, arrays |-> a,
      prodders |-> (fam = "nested")] :
        p \in Paths(fam, DepthAt(fam)), e \in ExprsAt(fam), r \in ReadsAt(fam),
        o \in OpsAt(fam), a \in ArraysAt(fam)}

Trees ==
    UNION {Family(fam) :
             fam \in {"structure", "work", "reduce", "guard", "device", "nested",
                      "arrays"}}

\* The IET holds one tree of any depth followed by single loops.
Singles == {t \in Trees : Len(t.loops) = 1}

TreesAt(n) == IF n = 0 THEN Trees ELSE Singles

(***************************************************************************)
(* One turn of the loop of _make_parallel (lines 370-396) on tree t whose  *)
(* outermost candidate is the node `rid`.                                  *)
(***************************************************************************)
NoReductions == [reduced |-> FALSE, reduction |-> {}, atomics |-> {}]

NoTurn ==
    [tree |-> [loops |-> <<>>, exprs |-> <<>>, reads |-> {}, ops |-> 0,
               arrays |-> {}, prodders |-> FALSE],
     rid |-> 0, outcome |-> "none", candidates |-> <<>>, collapsed |-> <<>>,
     partree |-> NoPartree, subtrees |-> <<>>, red |-> NoReductions,
     threaded |-> FALSE, region |-> FALSE, derefs |-> {}, guard |-> {},
     parrays |-> [a \in Arrays |-> 0]]

\* root in mapper
InMapper_never(rid) == FALSE

InMapper(rid) == mapper[rid] /= 0

Turn(t, rid, pa) ==
    LET candidates == filter_iterations(t.loops)
        none == [tree |-> t, rid |-> rid, outcome |-> "nocandidates",
                 candidates |-> candidates, collapsed |-> <<>>,
                 partree |-> NoPartree, subtrees |-> <<>>, red |-> NoReductions,
                 threaded |-> FALSE, region |-> FALSE, derefs |-> {},
                 guard |-> {}, parrays |-> pa]
    IN  IF candidates = <<>> THEN none
        ELSE
        LET r == _make_partree(t, candidates, "None")
        IN  IF r.partree = NoPartree
            THEN [none EXCEPT !.outcome = "declined"]
            ELSE IF InMapper(rid)
            THEN [none EXCEPT !.outcome = "inmapper", !.partree = r.partree,
                              !.collapsed = r.collapsed]
            ELSE
            LET nst == _make_nested_partree(t, r.partree)
                reg == _make_parregion(t, r.partree, pa)
            IN  IF nst.raised
                THEN [none EXCEPT !.outcome = "raised", !.partree = r.partree,
                                  !.collapsed = r.collapsed]
                ELSE [tree |-> t, rid |-> rid, outcome |-> "mapped",
                      candidates |-> candidates, collapsed |-> r.collapsed,
                      partree |-> r.partree, subtrees |-> nst.subtrees,
                      red |-> _make_reductions(t, r.collapsed),
                      threaded |-> _make_threaded_prodders(r.partree),
                      region |-> reg.region, derefs |-> reg.derefs,
                      guard |-> _make_guard(r.partree, r.collapsed),
                      parrays |-> reg.parrays]

\* A tree that shares the root of the tree visited before it: the same path
\* of loops but for the innermost one, a second loop in the body of the
\* innermost but one.
PlainLoop(d) == Loop(d, ParKind, FALSE, {}, {}, FALSE, TRUE, FALSE, FALSE, 32, {})

SiblingOf(t) ==
    [t EXCEPT !.loops = SubSeq(t.loops, 1, Len(t.loops) - 1)
                            \o <<PlainLoop(Len(t.loops))>>]

HasSibling(u) ==
    /\ u.outcome \in {"mapped", "declined", "inmapper"}
    /\ u.candidates[1].dim < Len(u.tree.loops)
    /\ ~u.tree.loops[Len(u.tree.loops) - 1].perfect

\* The tree of the next turn: at the head of the loop a tree with a root of
\* its own, named after the place of the tree in the IET; right after a turn
\* a tree that shares the root of the tree of that turn.
NextTrees ==
    IF pc = "loop" THEN TreesAt(ntrees)
    ELSE IF pc = "body" /\ HasSibling(last) THEN {SiblingOf(last.tree)}
    ELSE {}

RootIds == IF pc = "loop" THEN {ntrees + 1} ELSE {last.rid}

\* `continue`: no candidates, parallelization declined, or root already mapped
Continue ==
    /\ ntrees < MaxTrees
    /\ \E t \in NextTrees, rid \in RootIds :
         LET u == Turn(t, rid, parrays)
         IN  /\ u.outcome \in {"nocandidates", "declined", "inmapper"}
             /\ last' = u
             /\ declined' = IF u.outcome = "declined" THEN declined \cup {rid}
                            ELSE declined
    /\ ntrees' = ntrees + 1
    /\ pc' = "body"
    /\ UNCHANGED <<platform, cls, par_disabled, gpu_fit, mapper, parrays, replaced,
                   dereferences>>
    /\ UNCHANGED mapvars

\* the assertion of _make_partree fails below _make_nested_partree
Raise ==
    /\ ntrees < MaxTrees
    /\ \E t \in NextTrees, rid \in RootIds :
         LET u == Turn(t, rid, parrays)
         IN  /\ u.outcome = "raised"
             /\ last' = u
    /\ ntrees' = ntrees + 1
    /\ pc' = "raised"
    /\ UNCHANGED <<platform, cls, par_disabled, gpu_fit, mapper, parrays, replaced,
                   declined, dereferences>>
    /\ UNCHANGED mapvars

\* mapper[root] = parregion
Replace ==
    /\ ntrees < MaxTrees
    /\ \E t \in NextTrees, rid \in RootIds :
         LET u == Turn(t, rid, parrays)
         IN  /\ u.outcome = "mapped"
             /\ last' = u
             /\ mapper' = [mapper EXCEPT ![rid] = ntrees + 1]
             /\ parrays' = u.parrays
             /\ dereferences' = dereferences \cup u.derefs
    /\ ntrees' = ntrees + 1
    /\ pc' = "body"
    /\ UNCHANGED <<platform, cls, par_disabled, gpu_fit, replaced, declined>>
    /\ UNCHANGED mapvars

\* back at the head of the for loop: the locals of the body are rebound
NextTree ==
    /\ pc = "body"
    /\ pc' = "loop"
    /\ last' = NoTurn
    /\ UNCHANGED <<platform, cls, par_disabled, gpu_fit, ntrees, mapper, parrays,
                   replaced, declined, dereferences>>
    /\ UNCHANGED mapvars

\* iet = Transformer(mapper).visit(iet), after the last tree
Rewrite ==
    /\ pc = "loop"
    /\ pc' = "done"
    /\ replaced' = {r \in 1..MaxTrees : mapper[r] /= 0}
    /\ UNCHANGED <<platform, cls, par_disabled, gpu_fit, ntrees, mapper, parrays, last,
                   declined, dereferences>>
    /\ UNCHANGED mapvars

\* physical cores below, at and above par-collapse-ncores; hyperthreading on
\* the smallest and on the largest
Platforms ==
    [cores_physical : {2, 4, 8}, threads_per_core : {1}]
        \cup [cores_physical : {2, 8}, threads_per_core : {2}]

Init ==
    /\ platform \in Platforms
    /\ cls \in {Host, Device}
    /\ par_disabled \in (IF cls = Device THEN BOOLEAN ELSE {FALSE})
    /\ gpu_fit = (IF cls = Device THEN {"vsave"} ELSE {})
    /\ ntrees = 0
    /\ mapper = [r \in 1..MaxTrees |-> 0]
    /\ parrays = [a \in Arrays |-> 0]
    /\ last = NoTurn
    /\ pc = "loop"
    /\ replaced = {}
    /\ declined = {}
    /\ dereferences = {}
    /\ buffer = [is_Array |-> FALSE, ndim |-> 1, extent |-> <<1>>]
    /\ imask = NoMask
    /\ devicerm = NoFlag
    /\ directive = NoDirective

Next ==
    \/ Continue
    \/ Raise
    \/ Replace
    \/ NextTree
    \/ Rewrite

Spec == Init /\ [][Next]_vars

(***************************************************************************)
(* The data-movement directives are built by class methods called from     *)
(* other passes: one call of _map_delete on a buffer, with or without an   *)
(* index mask and a removal flag.                                          *)
(***************************************************************************)
InitMap ==
    /\ platform \in [cores_physical : {8}, threads_per_core : {1}]
    /\ cls = Device
    /\ par_disabled = FALSE
    /\ gpu_fit = {}
    /\ ntrees = 0
    /\ mapper = [r \in 1..MaxTrees |-> 0]
    /\ parrays = [a \in Arrays |-> 0]
    /\ last = NoTurn
    /\ pc = "loop"
    /\ replaced = {}
    /\ declined = {}
    /\ dereferences = {}
    /\ buffer \in Buffers
    /\ imask \in Masks(buffer)
    /\ devicerm \in Flags
    /\ directive = NoDirective

MapDelete ==
    /\ directive = NoDirective
    /\ directive' = _map_delete(buffer, imask, devicerm)
    /\ UNCHANGED <<platform, cls, par_disabled, gpu_fit, ntrees, mapper, parrays, last,
                   pc, replaced, declined, dereferences, buffer, imask, devicerm>>

NextMap == MapDelete

SpecMap == InitMap /\ [][NextMap]_vars

(***************************************************************************)
(* Properties.  `last` holds the locals of the latest turn of the loop.    *)
(***************************************************************************)
Built == last.partree /= NoPartree

Cands == last.candidates

Collapsable == SubSeq(last.collapsed, 2, Len(last.collapsed))

Preceding(i) == {k \in 1..Len(Cands) : Cands[k].dim < i.dim}

\* C1: a candidate whose lower bound (symbolic_min) holds the induction
\* variable of a candidate that precedes it in the nest is never collapsed.
C1_NoCollapseOnLowerBound ==
    \A n \in 1..Len(Collapsable) :
        \A k \in Preceding(Collapsable[n]) :
            Cands[k].dim \notin Collapsable[n].minDep

\* Three candidates, the second collapsed, the third left out because its
\* lower bound holds the variable of the root (not of the loop right above it).
C1_Witness ==
    /\ last.outcome = "mapped"
    /\ Len(Cands) = 3
    /\ Len(last.collapsed) = 2
    /\ Cands[3].minDep = {Cands[1].dim}
    /\ last.tree.loops[Cands[2].dim].perfect

\* The candidates of the claim C2: constant steps, no bound of a candidate
\* holds the variable of another.
C2_Independent ==
    \A k \in 1..Len(Cands) :
        ~Cands[k].stepSym /\ Cands[k].minDep = {} /\ Cands[k].maxDep = {}

C2_Nested(m) ==
    \A k \in Cands[1].dim..(Cands[m].dim - 1) : last.tree.loops[k].perfect

C2_LowWork(m) ==
    LET deeper == SubSeq(Cands, m + 1, Len(Cands))
    IN  /\ Len(deeper) > 0
        /\ \A k \in 1..Len(deeper) : deeper[k].static
        /\ prod([k \in 1..Len(deeper) |-> deeper[k].trip]) < collapse_work

\* the further candidates up to the first one that is not perfectly nested
\* or is vectorized
C2_Run == {m \in 2..Len(Cands) : \A j \in 2..m : C2_Nested(j) /\ ~Cands[j].vec}

\* the same, stopping also at the first one whose deeper candidates have
\* statically known trip counts with a product below par-collapse-work
C2_RunWork ==
    {m \in 2..Len(Cands) :
        \A j \in 2..m : C2_Nested(j) /\ ~Cands[j].vec /\ ~C2_LowWork(j)}

C3_Example ==
    /\ Built
    /\ last.partree.kind = "host"
    /\ ncores = 8
    /\ Len(Cands) = 3 /\ Len(last.tree.loops) = 3
    /\ \A k \in 1..3 : Cands[k].affine /\ Cands[k].minDep = {} /\ Cands[k].maxDep = {}
    /\ C2_Nested(3)
    /\ \A k \in 2..3 : Cands[k].static /\ Cands[k].trip = 32

\* C3: on the example the collapse degree is 3, and the schedule is static
\* when the operation count is below par-dynamic-work.
C3_ExampleDegree ==
    C3_Example =>
        /\ last.partree.ncollapse = 3
        /\ (last.tree.ops < dynamic_work => last.partree.schedule = "static")

\* C4: every collapsed loop is perfectly nested in its predecessor, is not
\* vectorized, and has no bound (lower or upper) that holds the variable of
\* an earlier loop of the group or of the root.
C4_CollapseGroup ==
    \A n \in 2..Len(last.collapsed) :
        LET i == last.collapsed[n]
        IN  /\ \A k \in last.collapsed[1].dim..(i.dim - 1) : last.tree.loops[k].perfect
            /\ ~i.vec
            /\ \A k \in 1..(n - 1) :
                  last.collapsed[k].dim \notin (i.minDep \cup i.maxDep)

Exprs == last.tree.exprs

SomeAtomic == \E k \in 1..Len(last.collapsed) : last.collapsed[k].atomic

SomeNonAffine == \E k \in 1..Len(last.collapsed) : ~last.collapsed[k].affine

\* increments (foreign or not) by the kind of their target
ScalarIncs == {e \in 1..Len(Exprs) : Exprs[e].inc /\ Exprs[e].write = "s"}

IndexedIncs == {e \in 1..Len(Exprs) : Exprs[e].inc /\ Exprs[e].write /= "s"}

Native(E) == {e \in E : ~Exprs[e].foreign}

\* C5 as stated: an increment of a scalar is always in the reduction set of
\* the root and never atomic.
C5_Original ==
    last.outcome = "mapped" =>
        \A e \in ScalarIncs : e \in last.red.reduction /\ e \notin last.red.atomics

\* C5 amended: in a unit with a collapsed loop tagged atomic, a scalar
\* increment (not a foreign expression) is reduced and not atomic when all
\* collapsed loops are affine or no increment targets an indexed location;
\* it is atomic, and not reduced, exactly when a collapsed loop is not
\* affine and another increment targets an indexed location.  With no
\* collapsed loop tagged atomic it is neither.
C5_ScalarIncrement ==
    last.outcome = "mapped" =>
        \A e \in Native(ScalarIncs) :
            /\ (e \in last.red.reduction) =
                  (SomeAtomic /\ (~SomeNonAffine \/ Native(IndexedIncs) = {}))
            /\ (e \in last.red.atomics) =
                  (SomeAtomic /\ SomeNonAffine /\ Native(IndexedIncs) /= {})

\* a scalar increment reduced although a collapsed loop is not affine
C5_Witness ==
    /\ last.outcome = "mapped"
    /\ SomeNonAffine
    /\ \E e \in Native(ScalarIncs) : e \in last.red.reduction

\* C6 as stated: with a non-affine collapsed loop every increment of an
\* indexed location is atomic.
C6_Original ==
    (last.outcome = "mapped" /\ SomeNonAffine) =>
        \A e \in IndexedIncs : e \in last.red.atomics

\* C6 amended: ... provided a collapsed loop is tagged atomic and the
\* increment is not a foreign expression.
C6_IndexedIncrement ==
    (last.outcome = "mapped" /\ SomeNonAffine /\ SomeAtomic) =>
        \A e \in Native(IndexedIncs) : e \in last.red.atomics

\* two collapsed loops, one affine and one not, and an atomic increment
C6_Witness ==
    /\ last.outcome = "mapped"
    /\ SomeNonAffine /\ SomeAtomic
    /\ \E k \in 1..Len(last.collapsed) : last.collapsed[k].affine
    /\ \E e \in Native(IndexedIncs) : e \in last.red.atomics

\* run-time values of the thread count the chunk size is checked for
ThreadCounts == {1, 4}

NonAffineCands == \E k \in 1..Len(Cands) : ~Cands[k].affine

\* the product of the trip counts of the root and of the collapsed loops
C7_N == prod([k \in 1..Len(last.collapsed) |-> last.collapsed[k].trip])

C7_Prologue ==
    /\ Len(last.partree.prefix) = 1
    /\ last.partree.prefix[1].lhs = "chunk_size"
    /\ last.partree.prefix[1].nthreads = "nthreads_nonaffine"
    /\ \A nthr \in ThreadCounts :
          ChunkValue(last.partree.prefix[1], last.tree, nthr)
              = Max(1, C7_N \div (nthr * chunk_nonaffine))
    /\ last.partree.chunk_size
    /\ last.partree.nthreads = "nthreads_nonaffine"

\* no tree built with a thread count supplied from outside comes from
\* candidates that are not all affine
C7_NoExternalThreads ==
    \A k \in 1..Len(last.subtrees) :
        LET sub == last.subtrees[k]
        IN  sub.partree.nthreads = "nthreads_nested" =>
               \A j \in 1..Len(sub.candidates) : sub.candidates[j].affine

\* C7 as stated: every parallelized nest with a non-affine candidate has
\* the chunk-size prologue and the non-affine thread count.
C7_Original ==
    (Built /\ NonAffineCands) => (C7_Prologue /\ C7_NoExternalThreads)

\* C7 amended: ... every nest parallelized by the host builder
\* (PragmaParallelizer._make_partree) ...
C7_HostChunk ==
    /\ (Built /\ NonAffineCands /\ last.partree.kind = "host") => C7_Prologue
    /\ C7_NoExternalThreads

\* a host tree with a collapsed loop next to the root and a chunk above 1
C7_Witness ==
    /\ Built /\ NonAffineCands /\ last.partree.kind = "host"
    /\ last.partree.ncollapse = 2
    /\ Len(Cands) = 3
    /\ ChunkValue(last.partree.prefix[1], last.tree, 4) > 1

\* C8: the guard is there exactly when a collapsed loop has a Symbol for
\* step, its condition tests exactly those loops, and a device-placed unit
\* has none.
C8_Guard ==
    last.outcome = "mapped" =>
        last.guard =
            IF last.partree.kind = "device" THEN {}
            ELSE {last.collapsed[k].dim :
                    k \in {j \in 1..Len(last.collapsed) : last.collapsed[j].stepSym}}

SavedOffDevice(F) == {f \in F : f \in {"usave", "vsave"} /\ f \notin gpu_fit}

Visited == last.outcome \notin {"none", "nocandidates"}

\* C9: is_on_device is False exactly when an inspected function has saved
\* history and is not in gpu-fit; the inspected functions are those written
\* or read, and with only_writes those written.  The placement of the
\* device-aware pass follows the test with only_writes.
C9_OnDevice ==
    Visited =>
        /\ is_on_device(last.tree, gpu_fit, FALSE)
              = (SavedOffDevice(Writes(last.tree) \cup last.tree.reads) = {})
        /\ is_on_device(last.tree, gpu_fit, TRUE)
              = (SavedOffDevice(Writes(last.tree)) = {})
        /\ cls = Device =>
              (last.partree.kind = "device") = (SavedOffDevice(Writes(last.tree)) = {})

\* offloaded although a saved function out of gpu-fit is read and a saved
\* function of gpu-fit is written
C9_Witness ==
    /\ cls = Device /\ Visited
    /\ "vsave" \in Writes(last.tree) /\ "vsave" \in gpu_fit
    /\ "usave" \in last.tree.reads /\ "usave" \notin Writes(last.tree)
    /\ last.partree.kind = "device"
    /\ ~is_on_device(last.tree, gpu_fit, FALSE)

\* C10: in the device-aware pass a nest with candidates is offloaded when
\* all written functions are device-resident, else parallelized on the host
\* unless par-disabled, else declined: no partree, no entry in the mapper,
\* root not replaced in the IET returned.
C10_Placement ==
    /\ (cls = Device /\ Visited) =>
          LET resident == SavedOffDevice(Writes(last.tree)) = {}
          IN  /\ resident =>
                    /\ last.partree.kind = "device"
                    /\ last.outcome \in {"mapped", "inmapper"}
              /\ (~resident /\ ~par_disabled) =>
                    /\ last.partree.kind = "host"
                    /\ last.outcome \in {"mapped", "inmapper"}
              /\ (~resident /\ par_disabled) =>
                    /\ last.partree = NoPartree
                    /\ last.outcome = "declined"
                    /\ mapper[last.rid] = 0
                    /\ last.rid \in declined
    /\ \A r \in declined : mapper[r] = 0 /\ r \notin replaced
    /\ pc = "done" => replaced = {r \in 1..MaxTrees : mapper[r] /= 0}

\* the pass has returned with one root declined and one replaced
C10_Witness ==
    /\ pc = "done"
    /\ declined /= {}
    /\ replaced /= {}

\* a unit of the device-aware pass built by the host builder
HostFallback ==
    /\ cls = Device
    /\ last.outcome = "mapped"
    /\ last.partree.kind = "host"

\* C11: a nest of the device-aware pass that falls back to the host gets the
\* host treatment: the nested expansion, the threaded prodders, the region
\* with the dereferences of its thread-private arrays, and the guard of
\* PragmaParallelizer.
C11_HostFallback ==
    HostFallback =>
        /\ last.subtrees = Host_make_nested_partree(last.tree, last.partree).subtrees
        /\ last.threaded
        /\ last.region
        /\ last.derefs = {<<a, last.parrays[a]>> : a \in last.tree.arrays}
        /\ last.guard = Host_make_guard(last.collapsed)

\* C13: within one invocation every thread-private heap array is bound to at
\* most one PointerArray: the array has an entry in parrays exactly when a
\* Dereference was built for it, every Dereference of the array, whichever
\* nest it is in, uses that entry, and the mapping is empty before the first
\* nest.
C13_OnePointerArray ==
    /\ \A a \in Arrays : Cardinality({d \in dereferences : d[1] = a}) <= 1
    /\ \A d \in dereferences : parrays[d[1]] = d[2]
    /\ \A a \in Arrays : (parrays[a] /= 0) = (\E d \in dereferences : d[1] = a)
    /\ \A d \in last.derefs : d \in dereferences \/ last.outcome /= "mapped"
    /\ ntrees = 0 => \A a \in Arrays : parrays[a] = 0

\* the second nest binds a new PointerArray to r0 and reuses the one the
\* first nest made for r1
C13_Witness ==
    /\ last.rid = 2
    /\ last.outcome = "mapped"
    /\ last.derefs = {<<"r0", 2>>, <<"r1", 1>>}

\* C14: a tree built by the host builder from candidates that are all affine
\* has the dynamic schedule when the operation count exceeds
\* par-dynamic-work and the static one otherwise, the count equal to the
\* threshold included, and has no chunk-size prologue.
C14_Schedule ==
    (Built /\ last.partree.kind = "host" /\ ~NonAffineCands) =>
        /\ last.partree.schedule =
              IF last.tree.ops > dynamic_work THEN "dynamic" ELSE "static"
        /\ last.partree.prefix = <<>>
        /\ ~last.partree.chunk_size

\* C15: the mapper is write-once: an entry, once set, is never changed, so a
\* root keeps the replacement of the first tree that reached it, also when
\* later trees share that root; the IET is left alone while the trees are
\* visited; the mapper is applied once, by the rewrite that ends the pass.
C15_WriteOnce ==
    /\ [](/\ pc /= "done" => replaced = {}
          /\ pc = "done" => replaced = {r \in 1..MaxTrees : mapper[r] /= 0}
          /\ \A r \in 1..MaxTrees : mapper[r] <= r
          /\ last.outcome = "inmapper" =>
                (mapper[last.rid] /= 0 /\ mapper[last.rid] < ntrees))
    /\ [][/\ \A r \in 1..MaxTrees : mapper[r] /= 0 => mapper'[r] = mapper[r]
          /\ replaced' /= replaced => (pc = "loop" /\ pc' = "done")
          /\ pc = "done" => pc' = "done"]_vars

\* a second tree reaches the root that the first tree has put in the mapper
C15_Witness ==
    /\ ntrees = 2
    /\ last.outcome = "inmapper"
    /\ last.rid = 1
    /\ mapper[1] = 1

\* candidate n gets as far as the work check: the candidates before it are
\* collapsed and it passes the three tests that come first
C16_Checked(n) ==
    /\ n <= Len(last.collapsed) + 1
    /\ C2_Nested(n)
    /\ \A k \in 1..(n - 1) : Cands[k].dim \notin Cands[n].minDep
    /\ ~Cands[n].vec

C16_Deeper(n) == {k \in 1..Len(Cands) : k > n}

C16_Known(n) == \A k \in C16_Deeper(n) : Cands[k].static

C16_Work(n) == prod([k \in 1..(Len(Cands) - n) |-> Cands[n + k].trip])

C17_Loops == last.tree.loops

C17_Outer ==
    {k \in 1..Len(C17_Loops) :
        /\ k >= last.partree.root
        /\ k < last.partree.root + last.partree.ncollapse}

C17_Accepted ==
    {k \in 1..Len(C17_Loops) :
        /\ k >= last.partree.root + last.partree.ncollapse
        /\ C17_Loops[k].par /\ ~C17_Loops[k].vec
        /\ C17_Loops[k].rel \cap C17_Outer /= {}}

\* the run of accepted loops that starts at the first accepted one
C17_RunOf(a) == {b \in C17_Accepted : \A k \in a..b : k \in C17_Accepted}

\* C17: in the host pass, with threads-per-core above par-nested the
\* second-level candidates are the loops of the run that starts at the first
\* accepted loop below the collapsed ones and ends before the first loop
\* after it that fails the test; without an accepted loop, or with
\* threads-per-core not above par-nested, the unit has no nested tree.
C17_NestedCandidates ==
    (cls = Host /\ last.outcome = "mapped") =>
        IF nhyperthreads <= nested \/ C17_Accepted = {}
        THEN last.subtrees = <<>>
        ELSE LET a == CHOOSE k \in C17_Accepted : \A j \in C17_Accepted : k <= j
                 run == C17_RunOf(a)
             IN  /\ Len(last.subtrees) = 1
                 /\ Len(last.subtrees[1].candidates) = Cardinality(run)
                 /\ \A k \in 1..Cardinality(run) :
                       last.subtrees[1].candidates[k] = C17_Loops[a + k - 1]

\* below the root: an accepted loop, a loop that fails the test, and an
\* accepted loop that is not collected
C17_Witness ==
    /\ cls = Host /\ last.outcome = "mapped"
    /\ Len(last.subtrees) = 1
    /\ Len(last.subtrees[1].candidates) = 1
    /\ last.subtrees[1].candidates[1].dim = 2
    /\ C17_Accepted = {2, 4}

\* C18: the assertion of _make_partree never fails: no run of the pass ends
\* in the AssertionError raised for non-affine candidates with a thread
\* count supplied by _make_nested_partree.
C18_NoAssertionError ==
    /\ pc /= "raised"
    /\ last.outcome /= "raised"

\* C12: the if clause of the directive built by _map_delete is the removal
\* flag, when one is given, followed by one (size != 0) test for each
\* dimension of _map_data(f), whatever the index mask; at run time it is
\* false as soon as one of the mapped extents is zero.
C12_DeleteCondition ==
    directive /= NoDirective =>
        /\ directive.cond =
              (IF devicerm.given THEN <<FlagItem>> ELSE <<>>)
                 \o [d \in 1..buffer.ndim |-> NonZero(_map_data(buffer)[d])]
        /\ (\E d \in 1..buffer.ndim : buffer.extent[d] = 0)
              => ~EvalCond(directive.cond, buffer, devicerm)
        /\ EvalCond(directive.cond, buffer, devicerm) =
              /\ devicerm.given => devicerm.value
              /\ \A d \in 1..buffer.ndim : buffer.extent[d] /= 0

\* a buffer with a zero extent in a dimension where the mask takes a section
\* of size 1, and a removal flag that is set: the clause is false
C12_Witness ==
    /\ directive /= NoDirective
    /\ devicerm.given /\ devicerm.value
    /\ imask.given
    /\ \E d \in 1..buffer.ndim :
          /\ buffer.extent[d] = 0
          /\ imask.entries[d].kind = "pair"
          /\ directive.sections[d].size = Literal(1)
    /\ ~EvalCond(directive.cond, buffer, devicerm)
====
